---- MODULE Spec2Model ----
(***************************************************************************)
(* Model of src/main.py: the story-generator backend.  Two request         *)
(* handlers (generate_story, generate_image), each relaying one call to an *)
(* external collaborator, and the module start-up that guards them.        *)
(*                                                                         *)
(* A text is a sequence of lexical units.  A unit is either a white-space  *)
(* character (space, newline), a JSON punctuation character, a complete    *)
(* JSON literal (a quoted string or a number), or a bare word that is not  *)
(* a JSON token.  strip(), re.split() and json.loads() are modelled on     *)
(* that sequence by what they do.                                          *)
(***************************************************************************)
EXTENDS Integers, Sequences, FiniteSets, TLC

VARIABLES env, proc, pc, kind, calls, result, tier, responses

vars == <<env, proc, pc, kind, calls, result, tier, responses>>

-----------------------------------------------------------------------------
(* Bounds of the model                                                     *)

MaxReq == 2
MaxLen == 3
MaxScenes == 6
MaxParas == 6

-----------------------------------------------------------------------------
(* Lexical units of a text                                                 *)

SP == " "
NL == "\n"
LBrace == "{"
RBrace == "}"
LBrack == "["
RBrack == "]"
Colon == ":"
Comma == ","
QScenes == "\"scenes\""
QA == "\"A\""
QEmpty == "\"\""
Num == "1"
Word == "x"

Whitespace == {SP, NL}
StringLits == {QScenes, QA, QEmpty}
Alphabet == {SP, NL, LBrace, RBrace, LBrack, RBrack, Colon, Comma,
             QScenes, QA, QEmpty, Num, Word}

IsSpace(c) == c \in Whitespace

Min(a, b) == IF a < b THEN a ELSE b

SetMax(S) == CHOOSE m \in S : \A n \in S : n <= m

-----------------------------------------------------------------------------
(* Python values: str, int, None, list, dict                               *)

PyStr(s) == [type |-> "str", str |-> s, items |-> <<>>, keys |-> <<>>]
PyInt == [type |-> "int", str |-> <<Num>>, items |-> <<>>, keys |-> <<>>]
PyNone == [type |-> "NoneType", str |-> <<>>, items |-> <<>>, keys |-> <<>>]
PyList(xs) == [type |-> "list", str |-> <<>>, items |-> xs, keys |-> <<>>]
PyDict(ks, vs) == [type |-> "dict", str |-> <<>>, items |-> vs, keys |-> ks]

(* the characters a quoted string literal denotes *)
StrOf(lit) ==
    IF lit = QScenes THEN <<"scenes">>
    ELSE IF lit = QA THEN <<"A">>
    ELSE <<>>

-----------------------------------------------------------------------------
(* str.strip()                                                             *)

Strip(s) ==
    LET solid == {i \in 1..Len(s) : ~IsSpace(s[i])}
    IN  IF solid = {} THEN <<>>
        ELSE LET lo == CHOOSE i \in solid : \A j \in solid : i <= j
                 hi == SetMax(solid)
             IN  SubSeq(s, lo, hi)

-----------------------------------------------------------------------------
(* json.loads()                                                            *)

ParseFail == [ok |-> FALSE, val |-> PyNone, next |-> 0]
ParseOk(v, n) == [ok |-> TRUE, val |-> v, next |-> n]

Tokens(text) == SelectSeq(text, LAMBDA c : ~IsSpace(c))

RECURSIVE ParseValue(_, _)
RECURSIVE ParseElements(_, _, _)
RECURSIVE ParseMembers(_, _, _, _)

ParseValue(t, i) ==
    IF i > Len(t) THEN ParseFail
    ELSE IF t[i] \in StringLits THEN ParseOk(PyStr(StrOf(t[i])), i + 1)
    ELSE IF t[i] = Num THEN ParseOk(PyInt, i + 1)
    ELSE IF t[i] = LBrack THEN
        IF i + 1 <= Len(t) /\ t[i + 1] = RBrack
        THEN ParseOk(PyList(<<>>), i + 2)
        ELSE ParseElements(t, i + 1, <<>>)
    ELSE IF t[i] = LBrace THEN
        IF i + 1 <= Len(t) /\ t[i + 1] = RBrace
        THEN ParseOk(PyDict(<<>>, <<>>), i + 2)
        ELSE ParseMembers(t, i + 1, <<>>, <<>>)
    ELSE ParseFail

ParseElements(t, i, acc) ==
    LET r == ParseValue(t, i)
    IN  IF ~r.ok \/ r.next > Len(t) THEN ParseFail
        ELSE IF t[r.next] = Comma
             THEN ParseElements(t, r.next + 1, Append(acc, r.val))
        ELSE IF t[r.next] = RBrack
             THEN ParseOk(PyList(Append(acc, r.val)), r.next + 1)
        ELSE ParseFail

ParseMembers(t, i, ks, vs) ==
    IF i + 1 > Len(t) \/ t[i] \notin StringLits \/ t[i + 1] # Colon
    THEN ParseFail
    ELSE LET r == ParseValue(t, i + 2)
         IN  IF ~r.ok \/ r.next > Len(t) THEN ParseFail
             ELSE IF t[r.next] = Comma
                  THEN ParseMembers(t, r.next + 1, Append(ks, StrOf(t[i])),
                                    Append(vs, r.val))
             ELSE IF t[r.next] = RBrace
                  THEN ParseOk(PyDict(Append(ks, StrOf(t[i])),
                                      Append(vs, r.val)), r.next + 1)
             ELSE ParseFail

(* ok = FALSE is json.JSONDecodeError *)
JsonLoads(text) ==
    LET t == Tokens(text)
        r == ParseValue(t, 1)
    IN  IF r.ok /\ r.next = Len(t) + 1
        THEN [ok |-> TRUE, val |-> r.val]
        ELSE [ok |-> FALSE, val |-> PyNone]

(* dict.get(key, default): a repeated key keeps its last value *)
DictGet(d, key, default) ==
    LET hits == {i \in 1..Len(d.keys) : d.keys[i] = key}
    IN  IF hits = {} THEN default ELSE d.items[SetMax(hits)]

-----------------------------------------------------------------------------
(* re.split(r'\n\s*\n', text)                                              *)

(* the pattern \n\n: a blank line must be empty, not merely white *)
MatchEndStrict(s, i) ==
    IF s[i] = NL /\ i + 1 <= Len(s) /\ s[i + 1] = NL THEN i + 1 ELSE 0

(* end of the leftmost-greedy match that starts at i, 0 when none starts *)
MatchEnd(s, i) ==
    IF s[i] # NL THEN 0
    ELSE LET ends == {j \in (i + 1)..Len(s) :
                        /\ s[j] = NL
                        /\ \A k \in (i + 1)..(j - 1) : IsSpace(s[k])}
         IN  IF ends = {} THEN 0 ELSE SetMax(ends)

RECURSIVE ReSplitFrom(_, _, _, _)
ReSplitFrom(s, start, i, acc) ==
    IF i > Len(s) THEN Append(acc, SubSeq(s, start, Len(s)))
    ELSE LET e == MatchEnd(s, i)
         IN  IF e > 0
             THEN ReSplitFrom(s, e + 1, e + 1, Append(acc, SubSeq(s, start, i - 1)))
             ELSE ReSplitFrom(s, start, i + 1, acc)

ReSplit(s) == ReSplitFrom(s, 1, 1, <<>>)

-----------------------------------------------------------------------------
(* generate_story: the scene normalization (lines 67-82)                   *)

SceneLimit == 5

(* the check of line 71 without its isinstance test *)
StructuredAttemptNoTypeCheck(text) ==
    LET parsed == JsonLoads(text)
    IN  IF ~parsed.ok THEN [raised |-> TRUE, scenes |-> PyNone]
        ELSE IF parsed.val.type # "dict" THEN [raised |-> TRUE, scenes |-> PyNone]
        ELSE LET scenes == DictGet(parsed.val, <<"scenes">>, PyList(<<>>))
             IN  IF scenes.type \in {"int", "NoneType"}
                    \/ Len(scenes.items) + Len(scenes.str) = 0
                 THEN [raised |-> TRUE, scenes |-> PyNone]
                 ELSE [raised |-> FALSE, scenes |-> scenes]

(* lines 69-72: raised = TRUE when any statement of the inner try raises  *)
(* (JSONDecodeError, AttributeError on a value without .get, ValueError)  *)
StructuredAttempt(text) ==
    LET parsed == JsonLoads(text)
    IN  IF ~parsed.ok THEN [raised |-> TRUE, scenes |-> PyNone]
        ELSE IF parsed.val.type # "dict" THEN [raised |-> TRUE, scenes |-> PyNone]
        ELSE LET scenes == DictGet(parsed.val, <<"scenes">>, PyList(<<>>))
             IN  IF scenes.type # "list" \/ Len(scenes.items) = 0
                 THEN [raised |-> TRUE, scenes |-> PyNone]
                 ELSE [raised |-> FALSE, scenes |-> scenes]

(* line 75: [p.strip() for p in re.split(...) if p.strip()] *)
Parts(text) ==
    LET pieces == ReSplit(text)
        kept == SelectSeq(pieces, LAMBDA p : Strip(p) # <<>>)
    IN  [i \in 1..Len(kept) |-> Strip(kept[i])]

(* lines 73-79 *)
Fallback(text) ==
    LET parts == Parts(text)
    IN  IF Len(parts) >= 1
        THEN [tier |-> "split",
              scenes |-> PyList([i \in 1..Len(parts) |-> PyStr(parts[i])])]
        ELSE [tier |-> "whole", scenes |-> PyList(<<PyStr(text)>>)]

(* lines 68-79 *)
SceneCandidate(text) ==
    LET a == StructuredAttempt(text)
    IN  IF a.raised THEN Fallback(text)
        ELSE [tier |-> "json", scenes |-> a.scenes]

(* line 82 left out: no truncation *)
SliceAll(v) == [ok |-> TRUE, val |-> v]

(* scenes[-5:] in place of scenes[:5] *)
SliceTail(v) ==
    IF v.type = "list"
    THEN [ok |-> TRUE,
          val |-> PyList(SubSeq(v.items,
                                Len(v.items) - Min(SceneLimit, Len(v.items)) + 1,
                                Len(v.items)))]
    ELSE [ok |-> FALSE, val |-> PyNone]

(* line 82: scenes[:5]; ok = FALSE when the value cannot be sliced *)
Slice(v) ==
    IF v.type = "list"
    THEN [ok |-> TRUE,
          val |-> PyList(SubSeq(v.items, 1, Min(SceneLimit, Len(v.items))))]
    ELSE IF v.type = "str"
    THEN [ok |-> TRUE,
          val |-> PyStr(SubSeq(v.str, 1, Min(SceneLimit, Len(v.str))))]
    ELSE [ok |-> FALSE, val |-> PyNone]

-----------------------------------------------------------------------------
(* HTTP responses: a status and a one-key JSON body                        *)

Response(status, key, value) == [status |-> status, key |-> key, value |-> value]

DetailPrefix == "Story generation failed: "

(* line 86 *)
StoryFailure(msg) == Response(500, "detail", PyStr(<<DetailPrefix, msg>>))

Placeholder == "https://via.placeholder.com/1024x768?text=Image+Unavailable"

-----------------------------------------------------------------------------
(* What a collaborator call can resolve to                                  *)

Outcome(k, msg, text, url) == [kind |-> k, msg |-> msg, text |-> text, url |-> url]

NoOutcome == Outcome("none", "", <<>>, PyNone)

ErrorMessages == {"", "503 unavailable"}

(* lines 64-65: generate_content raises, resp.text raises, or a text *)
StoryOutcomes(texts) ==
    {Outcome(k, m, <<>>, PyNone) : k \in {"generate_raised", "text_raised"},
                                   m \in ErrorMessages}
    \cup {Outcome("text", "", t, PyNone) : t \in texts}

ProviderUrls == {"https://images.example/1.png", "https://images.example/2.png"}

(* lines 101-106: generate raises, data has no first item, the item has  *)
(* no url attribute, or the item's url is None or a URL string           *)
ImageOutcomes ==
    {Outcome(k, m, <<>>, PyNone) : k \in {"generate_raised", "no_item", "no_url_field"},
                                   m \in {"error"}}
    \cup {Outcome("url", "", <<>>, u) : u \in {PyNone} \cup {PyStr(<<p>>) : p \in ProviderUrls}}

-----------------------------------------------------------------------------
(* The handlers from the resolved call to the response                      *)

(* the handler without the inner try/except of lines 68-73 *)
StoryHandlerNoInnerCatch(o) ==
    IF o.kind # "text" THEN [tier |-> "none", response |-> StoryFailure(o.msg)]
    ELSE LET a == StructuredAttempt(Strip(o.text))
         IN  IF a.raised
             THEN [tier |-> "none", response |-> StoryFailure("No scenes in JSON")]
             ELSE [tier |-> "json",
                   response |-> Response(200, "scenes", Slice(a.scenes).val)]

(* lines 65-86 *)
StoryHandler(o) ==
    IF o.kind # "text" THEN [tier |-> "none", response |-> StoryFailure(o.msg)]
    ELSE LET text == Strip(o.text)
             c == SceneCandidate(text)
             s == Slice(c.scenes)
         IN  IF s.ok
             THEN [tier |-> c.tier, response |-> Response(200, "scenes", s.val)]
             ELSE [tier |-> c.tier, response |-> StoryFailure("TypeError")]

(* the handler reporting a failed call instead of absorbing it *)
ImageHandlerReraise(o) ==
    IF o.kind = "url"
    THEN Response(200, "image_url", o.url)
    ELSE Response(500, "detail", PyStr(<<o.msg>>))

(* lines 106-111 *)
ImageHandler(o) ==
    IF o.kind = "url"
    THEN Response(200, "image_url", o.url)
    ELSE Response(200, "image_url", PyStr(<<Placeholder>>))

-----------------------------------------------------------------------------
(* The texts the text collaborator is taken to return                       *)

SeqsUpTo(S, n) == UNION {[1..k -> S] : k \in 0..n}

RECURSIVE Join(_, _)
Join(pieces, seps) ==
    IF Len(pieces) = 0 THEN <<>>
    ELSE IF Len(pieces) = 1 THEN pieces[1]
    ELSE pieces[1] \o seps[1] \o Join(Tail(pieces), Tail(seps))

(* every text of at most MaxLen units *)
ShortTexts == SeqsUpTo(Alphabet, MaxLen)

(* {"scenes":[i1,...,in]} for literals i1..in, n <= MaxScenes *)
ItemLits == {QA, QEmpty, Num}
ItemSeqs == SeqsUpTo(ItemLits, MaxScenes)
SceneText(items) ==
    <<LBrace, QScenes, Colon, LBrack>>
    \o Join([i \in 1..Len(items) |-> <<items[i]>>],
            [i \in 1..Len(items) |-> <<Comma>>])
    \o <<RBrack, RBrace>>
SceneTexts == {SceneText(items) : items \in ItemSeqs}

(* up to MaxParas one-word paragraphs, each gap a blank line *)
BlankGaps == {<<NL, NL>>, <<NL, SP, NL>>}
ParaTexts ==
    UNION {{Join([i \in 1..k |-> <<Word>>], gaps) : gaps \in [1..k -> BlankGaps]}
           : k \in 1..MaxParas}

(* shapes the sets above do not reach *)
OtherTexts ==
    { <<LBrace, QScenes, Colon, Num, RBrace>>,
      <<LBrace, QScenes, Colon, QA, RBrace>>,
      <<LBrace, QScenes, Colon, LBrace, RBrace, RBrace>>,
      <<LBrace, QA, Colon, LBrack, QA, RBrack, RBrace>>,
      <<LBrace, QScenes, Colon, LBrack, QA, RBrack, Comma,
        QScenes, Colon, LBrack, RBrack, RBrace>>,
      <<LBrace, QScenes, Colon, LBrack, RBrack, Comma,
        QScenes, Colon, LBrack, QA, RBrack, RBrace>>,
      <<LBrace, QScenes, Colon, LBrack, QA, RBrack>>,
      <<LBrace, QScenes, Colon, LBrack, QA, Comma, RBrack, RBrace>>,
      <<LBrace, QScenes, Colon, LBrack, QA, RBrack, RBrace, Word>>,
      <<LBrack, QA, Comma, QA, RBrack>>,
      <<LBrace, QScenes, Colon, LBrack, LBrack, QA, RBrack, Comma,
        LBrace, RBrace, RBrack, RBrace>>,
      <<LBrace, QScenes, Colon, LBrack, QA, Comma, NL, NL, QA, RBrack, RBrace>>,
      <<LBrace, QScenes, Colon, LBrack, RBrack, NL, NL, RBrace>>,
      <<SP, LBrace, QScenes, Colon, LBrack, QA, RBrack, RBrace, NL>>,
      <<Word, SP, Word, NL, Word, NL, SP, NL, NL, Word>> }

TextSet == ShortTexts \cup SceneTexts \cup ParaTexts \cup OtherTexts

(* the texts of the runs with several requests *)
CoreTexts ==
    { <<>>,
      <<Word>>,
      <<Word, NL, NL, Word>>,
      SceneText(<<QA, QA>>),
      SceneText(<<>>),
      SceneText(<<QA, QEmpty, Num, QA, QA, QA>>) }

CoreOutcomes == StoryOutcomes(CoreTexts)
AllOutcomes == StoryOutcomes(TextSet)

-----------------------------------------------------------------------------
(* Module start-up (lines 13-24)                                            *)

(* os.getenv: <<>> is None (unset), <<v>> is the value v *)
EnvValues == {<<>>, <<"">>, <<"secret">>}

(* truth value of an os.getenv result *)
Truthy(v) == v # <<>> /\ v[1] # ""

Reqs == 1..MaxReq

Init ==
    /\ env \in [{"GEMINI_API_KEY", "OPENAI_API_KEY"} -> EnvValues]
    /\ proc = "starting"
    /\ pc = [r \in Reqs |-> "idle"]
    /\ kind = [r \in Reqs |-> "none"]
    /\ calls = [r \in Reqs |-> [text |-> 0, image |-> 0]]
    /\ result = [r \in Reqs |-> NoOutcome]
    /\ tier = [r \in Reqs |-> "none"]
    /\ responses = [r \in Reqs |-> <<>>]

(* the guard of line 18 testing "is None" only *)
StartupOutcomeNoneOnly(e) ==
    IF e["GEMINI_API_KEY"] = <<>> \/ e["OPENAI_API_KEY"] = <<>>
    THEN "failed"
    ELSE "serving"

(* lines 15-24: the app and its routes exist only past the RuntimeError *)
StartupOutcome(e) ==
    IF ~Truthy(e["GEMINI_API_KEY"]) \/ ~Truthy(e["OPENAI_API_KEY"])
    THEN "failed"
    ELSE "serving"

Startup ==
    /\ proc = "starting"
    /\ proc' = StartupOutcome(env)
    /\ UNCHANGED <<env, pc, kind, calls, result, tier, responses>>

-----------------------------------------------------------------------------
(* Requests                                                                 *)

(* a POST is routed to its handler (lines 42-43, 88-89) *)
Arrive(r, k) ==
    /\ proc = "serving"
    /\ pc[r] = "idle"
    /\ pc' = [pc EXCEPT ![r] = "received"]
    /\ kind' = [kind EXCEPT ![r] = k]
    /\ UNCHANGED <<env, proc, calls, result, tier, responses>>

(* lines 63-64: the handler issues generate_content and waits *)
StoryCall(r) ==
    /\ pc[r] = "received"
    /\ kind[r] = "story"
    /\ calls' = [calls EXCEPT ![r].text = @ + 1]
    /\ pc' = [pc EXCEPT ![r] = "awaiting"]
    /\ UNCHANGED <<env, proc, kind, result, tier, responses>>

(* a handler that issues the call again when it failed *)
StoryResolveRetry(r, o) ==
    /\ pc[r] = "awaiting"
    /\ kind[r] = "story"
    /\ result' = [result EXCEPT ![r] = o]
    /\ IF o.kind # "text"
       THEN /\ calls' = [calls EXCEPT ![r].text = Min(@ + 1, 3)]
            /\ UNCHANGED <<pc, tier, responses>>
       ELSE /\ tier' = [tier EXCEPT ![r] = StoryHandler(o).tier]
            /\ responses' = [responses EXCEPT ![r] = Append(@, StoryHandler(o).response)]
            /\ pc' = [pc EXCEPT ![r] = "done"]
            /\ UNCHANGED calls
    /\ UNCHANGED <<env, proc, kind>>

(* lines 65-86: the call resolves with o and the handler responds *)
StoryResolve(r, o) ==
    /\ pc[r] = "awaiting"
    /\ kind[r] = "story"
    /\ result' = [result EXCEPT ![r] = o]
    /\ tier' = [tier EXCEPT ![r] = StoryHandler(o).tier]
    /\ responses' = [responses EXCEPT ![r] = Append(@, StoryHandler(o).response)]
    /\ pc' = [pc EXCEPT ![r] = "done"]
    /\ UNCHANGED <<env, proc, kind, calls>>

(* lines 95-105: the handler issues images.generate and waits *)
ImageCall(r) ==
    /\ pc[r] = "received"
    /\ kind[r] = "image"
    /\ calls' = [calls EXCEPT ![r].image = @ + 1]
    /\ pc' = [pc EXCEPT ![r] = "awaiting"]
    /\ UNCHANGED <<env, proc, kind, result, tier, responses>>

(* lines 106-111: the call resolves with o and the handler responds *)
ImageResolve(r, o) ==
    /\ pc[r] = "awaiting"
    /\ kind[r] = "image"
    /\ result' = [result EXCEPT ![r] = o]
    /\ responses' = [responses EXCEPT ![r] = Append(@, ImageHandler(o))]
    /\ pc' = [pc EXCEPT ![r] = "done"]
    /\ UNCHANGED <<env, proc, kind, calls, tier>>

(* a pending call resolves with any of the outcomes *)
StoryResolves(r, outcomes) ==
    /\ pc[r] = "awaiting"
    /\ \E o \in outcomes : StoryResolve(r, o)

ImageResolves(r) ==
    /\ pc[r] = "awaiting"
    /\ \E o \in ImageOutcomes : ImageResolve(r, o)

(* concurrent requests to both endpoints *)
Next ==
    \/ Startup
    \/ \E r \in Reqs, k \in {"story", "image"} : Arrive(r, k)
    \/ \E r \in Reqs : StoryCall(r)
    \/ \E r \in Reqs : StoryResolves(r, CoreOutcomes)
    \/ \E r \in Reqs : ImageCall(r)
    \/ \E r \in Reqs : ImageResolves(r)

Spec == Init /\ [][Next]_vars

(* one story request, the collaborator returning any text of TextSet *)
NextStory ==
    \/ Startup
    \/ Arrive(1, "story")
    \/ StoryCall(1)
    \/ StoryResolves(1, AllOutcomes)

SpecStory == Init /\ [][NextStory]_vars

-----------------------------------------------------------------------------
(* Properties                                                               *)

StoryDone(r) == kind[r] = "story" /\ pc[r] = "done"
ImageDone(r) == kind[r] = "image" /\ pc[r] = "done"
TextDone(r) == StoryDone(r) /\ result[r].kind = "text"
Resp(r) == responses[r][1]
TextOf(r) == Strip(result[r].text)

(* the structured attempt yields a non-empty list *)
HasSceneList(text) ==
    LET p == JsonLoads(text)
    IN  /\ p.ok
        /\ p.val.type = "dict"
        /\ DictGet(p.val, <<"scenes">>, PyList(<<>>)).type = "list"
        /\ Len(DictGet(p.val, <<"scenes">>, PyList(<<>>)).items) >= 1

SceneListOf(text) == DictGet(JsonLoads(text).val, <<"scenes">>, PyList(<<>>)).items

Prefix(xs) == SubSeq(xs, 1, Min(SceneLimit, Len(xs)))

(* the value a JSON literal denotes *)
ValueOf(lit) == IF lit = Num THEN PyInt ELSE PyStr(StrOf(lit))

(* C1: whatever text the collaborator returns, the request ends with a   *)
(* 200 response whose scenes value is a list of 1 to 5 elements.         *)
ScenesLengthBounded ==
    \A r \in Reqs : TextDone(r) =>
        /\ Resp(r).status = 200
        /\ Resp(r).key = "scenes"
        /\ Resp(r).value.type = "list"
        /\ Len(Resp(r).value.items) >= 1
        /\ Len(Resp(r).value.items) <= 5

(* a text that is JSON but no object was normalised to one scene *)
ScenesLengthBoundedWitness ==
    \E r \in Reqs :
        /\ TextDone(r)
        /\ JsonLoads(TextOf(r)).ok
        /\ JsonLoads(TextOf(r)).val.type = "list"
        /\ Len(Resp(r).value.items) = 1

(* C2: a text that parses as an object whose 'scenes' is a list of       *)
(* n >= 1 elements is answered with its first min(n,5) elements, in      *)
(* order and unchanged, and the fallback is not used.                    *)
JsonScenesPrefix ==
    \A r \in Reqs : TextDone(r) =>
        /\ HasSceneList(TextOf(r)) =>
              /\ tier[r] = "json"
              /\ Resp(r).value = PyList(Prefix(SceneListOf(TextOf(r))))
        /\ result[r].text \in SceneTexts =>
              LET items == CHOOSE it \in ItemSeqs : SceneText(it) = result[r].text
              IN  items # <<>> =>
                    /\ tier[r] = "json"
                    /\ Resp(r).value =
                         PyList([i \in 1..Min(5, Len(items)) |-> ValueOf(items[i])])

(* a list of more than five scenes was answered with five *)
JsonScenesPrefixWitness ==
    \E r \in Reqs :
        /\ TextDone(r)
        /\ HasSceneList(TextOf(r))
        /\ Len(SceneListOf(TextOf(r))) > 5
        /\ tier[r] = "json"
        /\ Len(Resp(r).value.items) = 5

(* C3: when the structured attempt yields no non-empty list, the answer  *)
(* is a non-empty list of pieces of the raw text, never the empty list   *)
(* and never the 'scenes' value itself.                                  *)
FallbackWhenNoSceneList ==
    \A r \in Reqs : (TextDone(r) /\ ~HasSceneList(TextOf(r))) =>
        /\ tier[r] \in {"split", "whole"}
        /\ Resp(r).value.type = "list"
        /\ Len(Resp(r).value.items) >= 1
        /\ \A i \in 1..Len(Resp(r).value.items) :
              Resp(r).value.items[i].type = "str"
        /\ (JsonLoads(TextOf(r)).ok /\ JsonLoads(TextOf(r)).val.type = "dict") =>
              Resp(r).value # DictGet(JsonLoads(TextOf(r)).val, <<"scenes">>, PyList(<<>>))

(* {"scenes": []} was answered from the raw text *)
FallbackWhenNoSceneListWitness ==
    \E r \in Reqs :
        /\ TextDone(r)
        /\ TextOf(r) = SceneText(<<>>)
        /\ tier[r] = "split"
        /\ Resp(r).value = PyList(<<PyStr(SceneText(<<>>))>>)

(* the paragraphs of a text, line by line: a paragraph is a maximal run  *)
(* of lines that are not blank, a blank line holding white space only    *)
RECURSIVE Lines(_)
Lines(s) ==
    LET nls == {i \in 1..Len(s) : s[i] = NL}
    IN  IF nls = {} THEN <<s>>
        ELSE LET i == CHOOSE n \in nls : \A m \in nls : n <= m
             IN  <<SubSeq(s, 1, i - 1)>> \o Lines(SubSeq(s, i + 1, Len(s)))

IsBlank(line) == \A i \in 1..Len(line) : IsSpace(line[i])

ParagraphText(ls) == Strip(Join(ls, [i \in 1..Len(ls) |-> <<NL>>]))

RECURSIVE Group(_, _, _)
Group(ls, cur, acc) ==
    LET closed == IF cur = <<>> THEN acc ELSE Append(acc, ParagraphText(cur))
    IN  IF ls = <<>> THEN closed
        ELSE IF IsBlank(Head(ls)) THEN Group(Tail(ls), <<>>, closed)
        ELSE Group(Tail(ls), Append(cur, Head(ls)), acc)

Paragraphs(s) == Group(Lines(s), <<>>, <<>>)

HasBlankLineSeparator(s) ==
    \E i, j \in 1..Len(s) :
        /\ i < j
        /\ s[i] = NL
        /\ s[j] = NL
        /\ \A k \in (i + 1)..(j - 1) : IsSpace(s[k])

ScenesAreNonEmptyStrings ==
    \A r \in Reqs : TextDone(r) =>
        \A i \in 1..Len(Resp(r).value.items) :
            /\ Resp(r).value.items[i].type = "str"
            /\ Resp(r).value.items[i].str # <<>>

(* C6: a story request ends with the 500 "Story generation failed:"      *)
(* response exactly when the collaborator call raised; a returned text,  *)
(* however malformed, ends with 200 and scenes.                          *)
StoryFailsIffCallFailed ==
    \A r \in Reqs : StoryDone(r) =>
        /\ Resp(r).status \in {200, 500}
        /\ (Resp(r).status = 500) <=> (result[r].kind \in {"generate_raised", "text_raised"})
        /\ Resp(r).status = 500 =>
              /\ Resp(r).key = "detail"
              /\ Resp(r).value = PyStr(<<DetailPrefix, result[r].msg>>)
        /\ result[r].kind = "text" =>
              /\ Resp(r).status = 200
              /\ Resp(r).key = "scenes"

(* a text that is not JSON was answered with 200 *)
StoryFailsIffCallFailedWitness ==
    \E r \in Reqs :
        /\ TextDone(r)
        /\ TextOf(r) # <<>>
        /\ ~JsonLoads(TextOf(r)).ok
        /\ Resp(r).status = 200

(* C7: an image request whose call failed ends with 200 and the          *)
(* placeholder URL; no image request ends with an error status.          *)
ImageFailureGivesPlaceholder ==
    \A r \in Reqs : ImageDone(r) =>
        /\ Resp(r).status = 200
        /\ Resp(r).key = "image_url"
        /\ result[r].kind \in {"generate_raised", "no_item", "no_url_field"} =>
              Resp(r).value = PyStr(<<Placeholder>>)

(* a call whose result had no first item was answered *)
ImageFailureGivesPlaceholderWitness ==
    \E r \in Reqs :
        /\ ImageDone(r)
        /\ result[r].kind = "no_item"
        /\ Resp(r).value = PyStr(<<Placeholder>>)

(* C8: image_url is always a string, a provider URL or the placeholder. *)
ImageUrlIsUrlString ==
    \A r \in Reqs : ImageDone(r) =>
        /\ Resp(r).value.type = "str"
        /\ Resp(r).value.str \in {<<u>> : u \in ProviderUrls \cup {Placeholder}}

(* C9: a request is handled only in a process started with both secrets  *)
(* present and non-empty; otherwise start-up fails and the routes never  *)
(* exist.                                                                *)
HandledOnlyWithSecrets ==
    /\ (\E r \in Reqs : pc[r] # "idle") =>
          /\ Truthy(env["GEMINI_API_KEY"])
          /\ Truthy(env["OPENAI_API_KEY"])
    /\ (~Truthy(env["GEMINI_API_KEY"]) \/ ~Truthy(env["OPENAI_API_KEY"])) =>
          proc \in {"starting", "failed"}

(* start-up failed on an empty secret *)
HandledOnlyWithSecretsWitness ==
    /\ proc = "failed"
    /\ env["GEMINI_API_KEY"] = <<"secret">>
    /\ env["OPENAI_API_KEY"] = <<"">>

(* C10: in every interleaving each handled request issues one call, to   *)
(* its own collaborator, before its response, never a second one, and    *)
(* gets exactly one response when the call has resolved.                 *)
OneCallOneResponse ==
    \A r \in Reqs :
        /\ kind[r] = "story" => calls[r].image = 0
        /\ kind[r] = "image" => calls[r].text = 0
        /\ pc[r] \in {"idle", "received"} =>
              calls[r].text + calls[r].image = 0 /\ responses[r] = <<>>
        /\ pc[r] = "awaiting" =>
              calls[r].text + calls[r].image = 1 /\ responses[r] = <<>>
        /\ pc[r] = "done" =>
              calls[r].text + calls[r].image = 1 /\ Len(responses[r]) = 1

(* a story and an image request both answered after a failed call *)
OneCallOneResponseWitness ==
    \E r, q \in Reqs :
        /\ StoryDone(r)
        /\ result[r].kind = "generate_raised"
        /\ ImageDone(q)
        /\ result[q].kind = "generate_raised"
        /\ calls[r].text = 1
        /\ calls[q].image = 1

====
